---------------------------- MODULE Spec2Model ----------------------------
(***************************************************************************)
(* Model of tunacell's colony/cell core:                                   *)
(*   - Colony.decompose / Colony.iter_lineages (src/tunacell/base/colony.py)*)
(*   - Cell division-event dating and time-series write-back               *)
(*     (src/tuna/base/cell.py)                                             *)
(* Times are stored doubled (a frame time t is the integer 2*t) so that    *)
(* the midpoint (a + b)/2. of two frame times is an integer.               *)
(***************************************************************************)
EXTENDS Integers, Sequences, FiniteSets, TLC

(***************************************************************************)
(* Bounds of the model                                                     *)
(***************************************************************************)
MaxCells == 4
MaxIterCells == 3
MaxSeed == 1
MaxSize == 1
RngModulus == 4
MaxFamily == 3
MaxFrames == 3
MaxAssign == 1
MaxJoin == 12
MaxKids == 2
MaxArgs == 2
MaxFlatten == 3

\* seed=None, size=None (colony.py:96)
NoSeed == -1
NoSize == -1
\* _birth_time = None, _division_time = None (cell.py:80)
NoTime == -1

VARIABLES
    ncells,       \* number of nodes of the colony (treelib.Tree._nodes)
    bpointer,     \* node -> identifier of its parent, 0 for the root
    fpointer,     \* node -> identifiers of its children, in insertion order
    rng,          \* state of numpy's global random generator
    idseqs,       \* Colony.idseqs, the cached decomposition (NoIdseqs is None)
    ret,          \* value returned by the last call of decompose
    lastCall,     \* arguments of the last call of decompose
    firstBySeed,  \* seed -> what the first decompose(True, seed) returned
    gen,          \* the generator object made by iter_lineages
    data,         \* cell -> frame times of Cell.data['time'] (NoData is None)
    birth_time,   \* cell -> Cell._birth_time
    division_time,\* cell -> Cell._division_time
    nassign,      \* number of direct assignments of birth/division times
    obs,          \* the Observable handed to the builds
    antMask,      \* cell -> frames of its parent its local fit estimates
    tailGap,      \* cell -> number of its last frames its own fit leaves missing
    sdata,        \* cell -> label -> Cell._sdata entry
    pc,           \* cell -> line its build_timelapse in progress stands at
    overlap,      \* a build has made a step while another was in progress
    ob,           \* the attributes of the Observable object calls are made on
    outcome,      \* the last call on observables and its outcome
    flatten,      \* the default list of unroll_raw_obs (observable.py:426)
    raised,       \* exception raised by the last call, "" when it returned
    lastOp        \* the last call made on a cell

colonyVars == <<ncells, bpointer, fpointer, rng, idseqs, ret, lastCall, firstBySeed, gen>>

treeVars == <<ncells, bpointer, fpointer>>

walkVars == <<rng, idseqs, ret, lastCall, firstBySeed, gen>>

timeVars == <<data, birth_time, division_time, nassign>>

stepVars == <<pc, overlap>>

objVars == <<ob, outcome, flatten>>

buildVars == <<obs, antMask, tailGap, sdata, stepVars, objVars>>

callVars == <<raised, lastOp>>

vars == <<colonyVars, timeVars, buildVars, callVars>>

(***************************************************************************)
(* Helpers on sequences                                                    *)
(***************************************************************************)
Last(s) == s[Len(s)]

Front(s) == SubSeq(s, 1, Len(s) - 1)

Range(s) == {s[i] : i \in 1..Len(s)}

RECURSIVE Flatten(_)
Flatten(ss) == IF ss = <<>> THEN <<>> ELSE Head(ss) \o Flatten(Tail(ss))

RECURSIVE SortedSeq(_)
SortedSeq(S) ==
    IF S = {} THEN <<>>
    ELSE LET m == CHOOSE x \in S : \A y \in S : x <= y
         IN <<m>> \o SortedSeq(S \ {m})

Min(a, b) == IF a <= b THEN a ELSE b

(***************************************************************************)
(* The tree (treelib.Tree as used by Colony)                               *)
(***************************************************************************)
Cells == 1..ncells

Seeds == {NoSeed} \cup (0..MaxSeed)

Sizes == {NoSize} \cup (0..MaxSize)

NoIdseqs == << <<0>> >>

\* variant: the test of line 90 made on the root instead of the leaves
is_root(c) == bpointer[c] = 0

\* Node.is_leaf
is_leaf(c) == fpointer[c] = <<>>

root == CHOOSE c \in Cells : bpointer[c] = 0

\* Tree.leaves
leaves == SortedSeq({c \in Cells : is_leaf(c)})

\* Tree.rsearch reversed: identifiers from the root down to c
RECURSIVE PathFromRoot(_)
PathFromRoot(c) ==
    IF bpointer[c] = 0 THEN <<c>> ELSE Append(PathFromRoot(bpointer[c]), c)

\* Tree.paths_to_leaves
paths_to_leaves == [i \in 1..Len(leaves) |-> PathFromRoot(leaves[i])]

(***************************************************************************)
(* numpy's global random generator                                         *)
(***************************************************************************)
NextRng(s) == (5 * s + 3) % RngModulus

RECURSIVE RngIter(_, _)
RngIter(s, k) == IF k = 0 THEN s ELSE RngIter(NextRng(s), k - 1)

\* np.random.seed(seed): the states the generator can be left in
\* variant: line 81 left out, the generator keeps its state
SeedDropped(seed) == {rng}

SeedStates(seed) ==
    IF seed = NoSeed THEN 0..(RngModulus - 1) ELSE {seed % RngModulus}

\* _randomise is called once per element of the list being sorted
DrawKeys(s, k) == [i \in 1..k |-> RngIter(s, i)]

\* list.sort(key=_randomise): stable, ascending
InsertKeyed(sorted, e) ==
    LET cnt == Cardinality({i \in 1..Len(sorted) : sorted[i][1] <= e[1]})
    IN SubSeq(sorted, 1, cnt) \o <<e>> \o SubSeq(sorted, cnt + 1, Len(sorted))

RECURSIVE SortKeyed(_)
SortKeyed(pairs) ==
    IF pairs = <<>> THEN <<>>
    ELSE InsertKeyed(SortKeyed(Front(pairs)), Last(pairs))

SortRandomised(list, s) ==
    LET keys == DrawKeys(s, Len(list))
        sorted == SortKeyed([i \in 1..Len(list) |-> <<keys[i], list[i]>>])
    IN [i \in 1..Len(list) |-> sorted[i][2]]

(***************************************************************************)
(* Tree.expand_tree(mode=DEPTH, key=_randomise)                            *)
(***************************************************************************)
\* variant: mode=WIDTH, the expansion goes behind the queue
JoinWidth(expansion, queue) == Tail(queue) \o expansion

JoinDepth(expansion, queue) == expansion \o Tail(queue)

RECURSIVE ExpandQueue(_, _, _)
ExpandQueue(queue, s, acc) ==
    IF queue = <<>> THEN [nids |-> acc, rng |-> s]
    ELSE LET h == Head(queue)
             expansion == SortRandomised(fpointer[h], s)
         IN ExpandQueue(JoinDepth(expansion, queue),
                        RngIter(s, Len(fpointer[h])),
                        Append(acc, h))

expand_tree(s) ==
    ExpandQueue(SortRandomised(fpointer[root], s),
                RngIter(s, Len(fpointer[root])),
                <<root>>)

(***************************************************************************)
(* Colony.decompose                                                        *)
(***************************************************************************)
\* variant: seq is not reset after a leaf (line 92 left out)
RECURSIVE SplitNoReset(_, _, _)
SplitNoReset(nids, seq, out) ==
    IF nids = <<>> THEN out
    ELSE LET seq2 == Append(seq, Head(nids))
         IN IF is_leaf(Head(nids))
            THEN SplitNoReset(Tail(nids), seq2, Append(out, seq2))
            ELSE SplitNoReset(Tail(nids), seq2, out)

\* the loop of lines 86-92: seq accumulates, is emitted and reset at a leaf
RECURSIVE SplitAtLeaves(_, _, _)
SplitAtLeaves(nids, seq, out) ==
    IF nids = <<>> THEN out
    ELSE LET seq2 == Append(seq, Head(nids))
         IN IF is_leaf(Head(nids))
            THEN SplitAtLeaves(Tail(nids), <<>>, Append(out, seq2))
            ELSE SplitAtLeaves(Tail(nids), seq2, out)

\* decompose(independent, seed) run from generator state s0 (after np.random.seed)
DecomposeFrom(independent, s0) ==
    IF ~independent
    THEN [idseqs |-> paths_to_leaves, rng |-> s0]
    ELSE LET e == expand_tree(s0)
         IN [idseqs |-> SplitAtLeaves(e.nids, <<>>, <<>>), rng |-> e.rng]

\* Python truthiness of the value bound to the parameter `independent`
Truthy(seed) == seed # NoSeed /\ seed # 0

\* the call repeats an earlier decompose(independent=True, seed) with that seed
Repeated(independent, seed) ==
    independent /\ seed # NoSeed /\ firstBySeed[seed] # NoIdseqs

Recorded(independent, seed, result) ==
    IF independent /\ seed # NoSeed /\ firstBySeed[seed] = NoIdseqs
    THEN [firstBySeed EXCEPT ![seed] = result]
    ELSE firstBySeed

Decompose(independent, seed) ==
    \E s0 \in SeedStates(seed) :
        LET d == DecomposeFrom(independent, s0)
        IN /\ idseqs' = d.idseqs
           /\ ret' = d.idseqs
           /\ rng' = d.rng
           /\ lastCall' = [independent |-> independent, seed |-> seed,
                           repeat |-> Repeated(independent, seed)]
           /\ firstBySeed' = Recorded(independent, seed, d.idseqs)
           /\ UNCHANGED <<timeVars, buildVars, callVars, treeVars, gen>>

\* any other use of numpy's global generator
Draw ==
    /\ rng' = NextRng(rng)
    /\ UNCHANGED <<timeVars, buildVars, callVars, treeVars,
                   idseqs, ret, lastCall, firstBySeed, gen>>

(***************************************************************************)
(* Colony.iter_lineages, a generator                                       *)
(***************************************************************************)
\* np.random.shuffle: Fisher-Yates from the last index down
RECURSIVE ShuffleFrom(_, _, _)
ShuffleFrom(list, i, s) ==
    IF i <= 1 THEN [list |-> list, rng |-> s]
    ELSE LET s2 == NextRng(s)
             j == (s2 % i) + 1
             swapped == [list EXCEPT ![i] = list[j], ![j] = list[i]]
         IN ShuffleFrom(swapped, i - 1, s2)

Shuffle(list, s) == ShuffleFrom(list, Len(list), s)

\* filt(lin): the predicate rejects the lineages holding a cell of filt
FiltAccepts(filt, idseq) == Range(idseq) \cap filt = {}

\* variant: count > size instead of count > size - 1
SizeReachedLoose(size, count) == size # NoSize /\ count > size

\* size is not None and count > size - 1
SizeReached(size, count) == size # NoSize /\ count > size - 1

\* the for loop of lines 127-133 from position pos up to the next yield
RECURSIVE Scan(_, _)
Scan(g, pos) ==
    IF pos > Len(g.list) THEN [g EXCEPT !.pc = "done", !.pos = pos]
    ELSE IF SizeReached(g.size, g.count) THEN [g EXCEPT !.pc = "done", !.pos = pos]
    ELSE IF FiltAccepts(g.filt, g.list[pos])
         THEN [g EXCEPT !.pc = "suspended", !.pos = pos + 1,
                        !.count = g.count + 1,
                        !.yielded = Append(g.yielded, g.list[pos])]
         ELSE Scan(g, pos + 1)

NoGen ==
    [pc |-> "none", filt |-> {}, size |-> NoSize, list |-> <<>>, pos |-> 1,
     count |-> 0, fresh |-> FALSE, yielded |-> <<>>]

\* iter_lineages(filt, size, shuffle, seed) up to its first yield. Making the
\* generator object runs no line of the body, so the call and the first
\* next() are one step: lines 117-122, then the loop up to the first yield.
\* Case self.idseqs is None: self.decompose(seed) binds seed to the
\* parameter `independent`, and the list shuffled is self.idseqs itself.
IterLineagesFresh(filt, size, shuffle, seed) ==
    /\ idseqs = NoIdseqs
    /\ \E s0 \in SeedStates(NoSeed) :
        LET d == DecomposeFrom(Truthy(seed), s0)
            sh == IF shuffle THEN Shuffle(d.idseqs, d.rng)
                  ELSE [list |-> d.idseqs, rng |-> d.rng]
        IN /\ ret' = d.idseqs
           /\ lastCall' = [independent |-> Truthy(seed), seed |-> NoSeed,
                           repeat |-> FALSE]
           /\ firstBySeed' = Recorded(Truthy(seed), NoSeed, d.idseqs)
           /\ idseqs' = sh.list
           /\ rng' = sh.rng
           /\ gen' = Scan([NoGen EXCEPT !.filt = filt, !.size = size,
                                        !.list = sh.list, !.fresh = TRUE], 1)
    /\ UNCHANGED <<timeVars, buildVars, callVars, treeVars>>

\* Case self.idseqs is cached: a copy of it is iterated, seed is not read.
IterLineagesCached(filt, size, shuffle) ==
    /\ idseqs # NoIdseqs
    /\ LET sh == IF shuffle THEN Shuffle(idseqs, rng)
                 ELSE [list |-> idseqs, rng |-> rng]
       IN /\ rng' = sh.rng
          /\ gen' = Scan([NoGen EXCEPT !.filt = filt, !.size = size,
                                       !.list = sh.list, !.fresh = FALSE], 1)
    /\ UNCHANGED <<timeVars, buildVars, callVars, treeVars,
                   idseqs, ret, lastCall, firstBySeed>>

\* a later next(): resume after the yield
GenNext ==
    /\ gen.pc = "suspended"
    /\ gen' = Scan(gen, gen.pos)
    /\ UNCHANGED <<timeVars, buildVars, callVars, treeVars,
                   rng, idseqs, ret, lastCall, firstBySeed>>

(***************************************************************************)
(* Specification of the colony                                             *)
(***************************************************************************)
(***************************************************************************)
(* Observable: the attributes read by Cell.build_timelapse, and its label  *)
(***************************************************************************)
\* label_is_method: obs.label is a method, as Cell calls it (cell.py:233);
\* FALSE for the Observable of observable.py, whose label is a property
DefaultObs ==
    [raw |-> "length", differentiate |-> FALSE, scale |-> "linear",
     local_fit |-> FALSE, time_window |-> "0.00", join_points |-> "3",
     mode |-> "dynamics", timing |-> "t", tref |-> "",
     label_is_method |-> TRUE]

\* the observables handed to the builds
ObsSet ==
    {DefaultObs,
     [DefaultObs EXCEPT !.differentiate = TRUE],
     [DefaultObs EXCEPT !.differentiate = TRUE, !.scale = "log"],
     [DefaultObs EXCEPT !.local_fit = TRUE, !.time_window = "20.00"],
     [DefaultObs EXCEPT !.local_fit = TRUE, !.time_window = "20.00",
                        !.differentiate = TRUE, !.scale = "log"],
     [DefaultObs EXCEPT !.label_is_method = FALSE],
     [DefaultObs EXCEPT !.label_is_method = FALSE,
                        !.local_fit = TRUE, !.time_window = "20.00"]}

\* Observable.label, as the sequence of the pieces it concatenates
Label(o) ==
    <<"T", o.timing, o.tref, "M", o.mode, "J", o.join_points, "_">>
    \o (IF o.differentiate THEN <<"dot", "_">> ELSE <<>>)
    \o (IF o.local_fit THEN <<"W", o.time_window, "_">> ELSE <<>>)
    \o (IF o.scale = "log" THEN <<"log", "_">> ELSE <<>>)
    \o <<o.raw>>

Labels == {Label(o) : o \in ObsSet}

\* the cell-cycle observables handed to compute_cyclized
CycleObsSet ==
    {[DefaultObs EXCEPT !.mode = mo, !.timing = "b"] :
        mo \in {"birth", "division", "net-increase-additive",
                "net-increase-multiplicative", "average", "rate"}}
    \cup {[DefaultObs EXCEPT !.mode = "average", !.timing = "b",
                             !.differentiate = TRUE],
          [DefaultObs EXCEPT !.mode = "division", !.timing = "d",
                             !.local_fit = TRUE, !.time_window = "20.00"],
          [DefaultObs EXCEPT !.mode = "birth", !.timing = "b",
                             !.label_is_method = FALSE]}

(***************************************************************************)
(* Strings: a string is the sequence of its characters                     *)
(***************************************************************************)
Lower ==
    {"a", "b", "c", "d", "e", "f", "g", "h", "i", "j", "k", "l", "m", "n",
     "o", "p", "q", "r", "s", "t", "u", "v", "w", "x", "y", "z"}

DigitChars == <<"0", "1", "2", "3", "4", "5", "6", "7", "8", "9">>

Digit == Range(DigitChars)

\* [\.,]
Separator == {".", ","}

Take(s, n) == SubSeq(s, 1, n)

Drop(s, n) == SubSeq(s, n + 1, Len(s))

\* length of the longest prefix of s made of characters of class: x*
RECURSIVE Span(_, _)
Span(s, class) ==
    IF s # <<>> /\ Head(s) \in class THEN 1 + Span(Tail(s), class) ELSE 0

\* str.split('_')
RECURSIVE SplitFrom(_, _, _)
SplitFrom(s, item, items) ==
    IF s = <<>> THEN Append(items, item)
    ELSE IF Head(s) = "_" THEN SplitFrom(Tail(s), <<>>, Append(items, item))
    ELSE SplitFrom(Tail(s), Append(item, Head(s)), items)

Split(s) == SplitFrom(s, <<>>, <<>>)

\* '{}'.format(n) for an int
RECURSIVE Digits(_)
Digits(n) ==
    IF n < 10 THEN <<DigitChars[n + 1]>>
    ELSE Append(Digits(n \div 10), DigitChars[(n % 10) + 1])

FormatInt(n) == IF n < 0 THEN <<"-">> \o Digits(-n) ELSE Digits(n)

\* '{:.2f}'.format(v): v is a float given in thousandths, rounded to
\* hundredths (the values tried do not end in 5, so no tie is rounded)
FormatFixed2(v) ==
    LET h == ((IF v < 0 THEN -v ELSE v) + 5) \div 10
    IN (IF v < 0 THEN <<"-">> ELSE <<>>)
       \o Digits(h \div 100)
       \o <<".", DigitChars[((h \div 10) % 10) + 1], DigitChars[(h % 10) + 1]>>

\* int(digits)
RECURSIVE ToInt(_)
ToInt(digits) ==
    IF digits = <<>> THEN 0
    ELSE 10 * ToInt(Front(digits))
         + (CHOOSE d \in 0..9 : DigitChars[d + 1] = Last(digits))

\* float(text.replace(',', '.')) for a text made of letters, digits,
\* separators, digits in that order: the value in thousandths, or not ok
\* when float raises ValueError (the strings tried spell neither inf nor nan)
ParseFloat(text) ==
    LET a == Span(text, Lower)
        b == Span(Drop(text, a), Digit)
        c == Span(Drop(text, a + b), Separator)
        d == Span(Drop(text, a + b + c), Digit)
    IN IF a > 0 \/ c > 1 \/ b + d = 0 \/ a + b + c + d # Len(text)
       THEN [ok |-> FALSE, value |-> 0]
       ELSE [ok |-> TRUE,
             value |-> 1000 * ToInt(SubSeq(text, 1, b))
                       \* the three first decimals, in thousandths
                       + ToInt(Take(Drop(text, b + c) \o <<"0", "0", "0">>, 3))]

(***************************************************************************)
(* Observable objects: attributes, label, as_timelapse                     *)
(***************************************************************************)
\* the words of the labels, letter by letter
Words ==
    [dynamics |-> <<"d", "y", "n", "a", "m", "i", "c", "s">>,
     birth |-> <<"b", "i", "r", "t", "h">>,
     division |-> <<"d", "i", "v", "i", "s", "i", "o", "n">>,
     net_increase_additive |-> <<"n", "e", "t", "-", "i", "n", "c", "r",
         "e", "a", "s", "e", "-", "a", "d", "d", "i", "t", "i", "v", "e">>,
     net_increase_multiplicative |-> <<"n", "e", "t", "-", "i", "n", "c",
         "r", "e", "a", "s", "e", "-", "m", "u", "l", "t", "i", "p", "l",
         "i", "c", "a", "t", "i", "v", "e">>,
     average |-> <<"a", "v", "e", "r", "a", "g", "e">>,
     rate |-> <<"r", "a", "t", "e">>,
     length |-> <<"l", "e", "n", "g", "t", "h">>,
     cell_length |-> <<"c", "e", "l", "l", "_", "l", "e", "n", "g", "t",
         "h">>,
     rootword |-> <<"r", "o", "o", "t">>,
     dotword |-> <<"d", "o", "t">>,
     logword |-> <<"l", "o", "g">>,
     timelapsed |-> <<"_", "t", "i", "m", "e", "l", "a", "p", "s", "e",
         "d", "_">>,
     cell_cycle |-> <<"c", "e", "l", "l", "-", "c", "y", "c", "l", "e">>]

\* the modes of lines 66-77 and the timings of lines 78-84
Modes ==
    {Words.dynamics, Words.birth, Words.division, Words.net_increase_additive,
     Words.net_increase_multiplicative, Words.average, Words.rate}

Timings == {"t", "b", "d", "m", "g"}

\* values of name and tref: None, a str, a float (in thousandths), an int,
\* or an attribute that was never assigned
None == <<"none">>

Unset == <<"unset">>

StrVal(chars) == <<"str", chars>>

FloatVal(v) == <<"float", v>>

\* Observable(raw='length') with raw given: the defaults of lines 93-96
DefaultObject ==
    [name |-> None, raw |-> Words.length, differentiate |-> FALSE,
     scale |-> "linear", local_fit |-> FALSE, time_window |-> 0,
     join_points |-> 3, mode |-> Words.dynamics, timing |-> "t", tref |-> None]

\* an object on which no attribute was assigned (load_from_string in __init__)
FreshObject ==
    [name |-> Unset, raw |-> <<>>, differentiate |-> FALSE,
     scale |-> "linear", local_fit |-> FALSE, time_window |-> 0,
     join_points |-> 3, mode |-> Words.dynamics, timing |-> "t", tref |-> Unset]

\* Observable.label, character by character
label(o) ==
    LET \* lines 160-166
        stref == IF o.tref = None THEN <<>>
                 ELSE IF o.tref[1] = "float" THEN FormatFixed2(o.tref[2])
                 ELSE IF o.tref[1] = "int" THEN FormatInt(o.tref[2])
                 ELSE o.tref[2]
    IN <<"T", o.timing>> \o stref
       \o <<"M">> \o o.mode
       \o <<"J">> \o FormatInt(o.join_points)
       \o <<"_">>
       \o (IF o.differentiate THEN Words.dotword \o <<"_">> ELSE <<>>)
       \o (IF o.local_fit
           THEN <<"W">> \o FormatFixed2(o.time_window) \o <<"_">> ELSE <<>>)
       \o (IF o.scale = "log" THEN Words.logword \o <<"_">> ELSE <<>>)
       \o o.raw

NoMatch == [ok |-> FALSE, timing |-> "", stref |-> <<>>, mode |-> <<>>, sjoin |-> <<>>]

\* re.compile(_re_codestring).match(s) and its groups:
\* T([a-z])([a-z]*\d*[\.,]*\d*)M([a-z\-]+)J(\d+), anchored at the start only.
\* The classes of consecutive pieces are disjoint and exclude the flags,
\* so every piece takes its longest run.
MatchCodestring(s) ==
    IF Len(s) < 2 \/ s[1] # "T" \/ s[2] \notin Lower THEN NoMatch
    ELSE LET r == Drop(s, 2)
             a == Span(r, Lower)
             b == Span(Drop(r, a), Digit)
             c == Span(Drop(r, a + b), Separator)
             d == Span(Drop(r, a + b + c), Digit)
             g == a + b + c + d
             rm == Drop(r, g)
             m == Span(Drop(rm, 1), Lower \cup {"-"})
             rj == Drop(rm, 1 + m)
             j == Span(Drop(rj, 1), Digit)
         IN IF rm = <<>> \/ Head(rm) # "M" \/ m = 0 THEN NoMatch
            ELSE IF rj = <<>> \/ Head(rj) # "J" \/ j = 0 THEN NoMatch
            ELSE [ok |-> TRUE, timing |-> s[2], stref |-> Take(r, g),
                  mode |-> SubSeq(rm, 2, 1 + m), sjoin |-> SubSeq(rj, 2, 1 + j)]

\* position of the first 'W' of item, 0 when there is none
FirstW(item) ==
    IF \E i \in 1..Len(item) : item[i] = "W"
    THEN CHOOSE i \in 1..Len(item) :
            item[i] = "W" /\ \A k \in 1..(i - 1) : item[k] # "W"
    ELSE 0

\* commas replaced by dots: str.replace(',', '.')
Dotted(text) == [i \in 1..Len(text) |-> IF text[i] = "," THEN "." ELSE text[i]]

\* the loop of lines 230-243 over items[:-1]
RECURSIVE ScanItems(_, _)
ScanItems(items, o) ==
    IF items = <<>> THEN [raised |-> "", obj |-> o]
    ELSE LET item == Head(items)
             \* re.compile('W(\d*[.,]*\d*)').search(item) and its group
             r == Drop(item, FirstW(item))
             b == Span(r, Digit)
             c == Span(Drop(r, b), Separator)
             d == Span(Drop(r, b + c), Digit)
             stime_window == IF FirstW(item) > 0 THEN Take(r, b + c + d) ELSE <<>>
             tw == ParseFloat(Dotted(stime_window))
             o1 == IF stime_window # <<>>
                   THEN [o EXCEPT !.time_window = tw.value, !.local_fit = TRUE]
                   ELSE o
             o2 == IF item = Words.logword THEN [o1 EXCEPT !.scale = "log"] ELSE o1
             o3 == IF item = Words.dotword THEN [o2 EXCEPT !.differentiate = TRUE] ELSE o2
         IN IF stime_window # <<>> /\ ~tw.ok
            THEN \* float() at line 237
                 [raised |-> "ValueError", obj |-> o]
            ELSE ScanItems(Tail(items), o3)

\* Observable.load_from_string(codestring) on an object with attributes o:
\* the exception raised ("" when it returns) and the attributes it leaves
load_from_string(o, codestring) ==
    LET \* lines 195-203: the defaults and raw are assigned before the
        \* string is tested
        o1 == [o EXCEPT !.mode = Words.dynamics, !.timing = "t",
                        !.local_fit = FALSE, !.time_window = 0,
                        !.join_points = 3, !.differentiate = FALSE,
                        !.scale = "linear", !.raw = Last(Split(codestring))]
        m == MatchCodestring(codestring)
        tref == ParseFloat(Dotted(m.stref))
        o2 == [o1 EXCEPT !.timing = m.timing]
        o3 == [o2 EXCEPT !.tref = IF m.stref = <<>> THEN None
                                  ELSE IF m.stref = Words.rootword THEN StrVal(Words.rootword)
                                  ELSE FloatVal(tref.value),
                         !.mode = m.mode,
                         !.join_points = ToInt(m.sjoin)]
    IN IF ~m.ok
       THEN [raised |-> "ObservableStringError", obj |-> o1]
       ELSE IF m.stref # <<>> /\ m.stref # Words.rootword /\ ~tref.ok
       THEN \* float() at line 219
            [raised |-> "ValueError", obj |-> o2]
       ELSE ScanItems(Front(Split(codestring)), o3)

\* Observable(from_string=codestring), lines 107-108
FromString(codestring) == load_from_string(FreshObject, codestring)

\* Observable.as_timelapse: the exception raised, whether the result is the
\* receiver itself, and the attributes of the result
as_timelapse(o) ==
    IF o.mode = Words.dynamics /\ o.timing = "t"
    THEN [raised |-> "", same |-> TRUE, obj |-> o]
    ELSE IF o.name = None
    THEN \* line 139 adds a str and None
         [raised |-> "TypeError", same |-> FALSE, obj |-> o]
    ELSE IF o.name = Unset
    THEN \* line 139 reads an attribute that was never assigned
         [raised |-> "AttributeError", same |-> FALSE, obj |-> o]
    ELSE [raised |-> "", same |-> FALSE,
          obj |-> [o EXCEPT !.mode = Words.dynamics, !.timing = "t",
                            !.name = StrVal(Words.timelapsed \o o.name[2])]]

(***************************************************************************)
(* FunctionalObservable.mode, unroll_raw_obs and set_observable_list       *)
(***************************************************************************)
\* a child of a FunctionalObservable: an Observable, of which the mode is
\* kept, or a FunctionalObservable, of which the children are kept
ObsChild(mode) == <<"obs", mode>>

FuncChild(kids) == <<"fobs", kids>>

\* variant: the mode of the first child, as the timing property falls back to
RECURSIVE FunctionalModeFirst(_)
FunctionalModeFirst(kids) ==
    LET first == IF kids[1][1] = "obs" THEN kids[1][2]
                 ELSE FunctionalModeFirst(kids[1][2])
    IN IF first = Words.dynamics THEN Words.dynamics ELSE Words.cell_cycle

\* FunctionalObservable.mode, lines 396-405
RECURSIVE FunctionalMode(_)
FunctionalMode(kids) ==
    LET modes == [i \in 1..Len(kids) |->
                     IF kids[i][1] = "obs" THEN kids[i][2]
                     ELSE FunctionalMode(kids[i][2])]
    IN IF Words.dynamics \in Range(modes) THEN Words.dynamics ELSE Words.cell_cycle

\* the loop of lines 411-412 over the children: an Observable child has the
\* default attributes but its mode, a FunctionalObservable child is named 'g'
RECURSIVE LabelItems(_)
LabelItems(kids) ==
    IF kids = <<>> THEN <<>>
    ELSE (IF Head(kids)[1] = "obs"
          THEN label([DefaultObject EXCEPT !.mode = Head(kids)[2]])
          ELSE <<"g", "(">> \o LabelItems(Head(kids)[2]) \o <<")">>)
         \o <<",", " ">> \o LabelItems(Tail(kids))

\* FunctionalObservable.label, lines 407-414
FunctionalLabel(name, kids) == name \o <<"(">> \o LabelItems(kids) \o <<")">>

\* the Observable objects handed to set_observable_list: an object is its
\* identifier, Heap gives its attributes; 1 and 2 are built with the same
\* keyword arguments
Heap ==
    <<DefaultObject, DefaultObject, [DefaultObject EXCEPT !.scale = "log"]>>

\* a == b for two Observable objects: the class defines no __eq__, the
\* objects are compared by identity
Equals(a, b) == a = b

\* for obs in ...: if obs not in raw_obs: raw_obs.append(obs), lines 499-501
RECURSIVE AppendNew(_, _)
AppendNew(raw_obs, found) ==
    IF found = <<>> THEN raw_obs
    ELSE AppendNew(IF \E i \in 1..Len(raw_obs) : Equals(raw_obs[i], Head(found))
                   THEN raw_obs
                   ELSE Append(raw_obs, Head(found)),
                   Tail(found))

\* the loop of lines 497-505 over Observable arguments: unroll_raw_obs
\* appends each to its default list `flatten`, which outlives the call,
\* and returns that list
RECURSIVE CollectRaw(_, _, _)
CollectRaw(args, default, raw_obs) ==
    IF args = <<>> THEN [flatten |-> default, raw_obs |-> raw_obs]
    ELSE LET unrolled == Append(default, Head(args))
         IN CollectRaw(Tail(args), unrolled, AppendNew(raw_obs, unrolled))

\* unroll_raw_obs over the items of a list (lines 443-444) or the children
\* of a FunctionalObservable (lines 446-447): an Observable is appended to
\* the list handed down, anything else is unrolled into it
RECURSIVE UnrollItems(_, _)
UnrollItems(items, flat) ==
    IF items = <<>> THEN flat
    ELSE UnrollItems(Tail(items),
                     IF Head(items)[1] = "obs" THEN Append(flat, Head(items)[2])
                     ELSE UnrollItems(Head(items)[2], flat))

\* unroll_raw_obs(obs, flatten): the argument is an Observable object
\* <<"obs", id>>, a FunctionalObservable <<"fobs", children>> or a list
\* <<"list", items>>
unroll_raw_obs(arg, flat) == UnrollItems(<<arg>>, flat)

(***************************************************************************)
(* Calls on Observable objects                                             *)
(***************************************************************************)
\* the outcome of the last call: its arguments, the exception raised and
\* what it returned
NoOut ==
    [op |-> "none", arg |-> FreshObject, string |-> <<>>, raised |-> "",
     same |-> FALSE, obj |-> FreshObject, args |-> <<>>, list |-> <<>>,
     kids |-> <<>>, value |-> <<>>]

Did(op) == [NoOut EXCEPT !.op = op]

\* the strings handed to Observable(from_string=...)
Codestrings ==
    {<<>>,
     <<"l", "e", "n", "g", "t", "h">>,
     <<"T", "t", "M", "d", "y", "n", "a", "m", "i", "c", "s", "J", "3", "_",
       "l", "e", "n", "g", "t", "h">>,
     <<"T", "b", "1", ",", "5", "M", "b", "i", "r", "t", "h", "J", "1", "2",
       "_", "d", "o", "t", "_", "W", "2", "0", ".", "0", "0", "_", "l", "o",
       "g", "_", "l", "e", "n", "g", "t", "h">>,
     <<"T", "t", "d", "y", "n", "a", "m", "i", "c", "s", "J", "3", "_", "l",
       "e", "n", "g", "t", "h">>,
     <<"T", "t", "M", "d", "y", "n", "a", "m", "i", "c", "s", "_", "l", "e",
       "n", "g", "t", "h">>,
     <<"M", "d", "y", "n", "a", "m", "i", "c", "s", "J", "3", "_", "l", "e",
       "n", "g", "t", "h">>,
     <<"T", "1", "M", "d", "y", "n", "a", "m", "i", "c", "s", "J", "3", "_",
       "l", "e", "n", "g", "t", "h">>,
     <<"T", "t", "M", "d", "y", "n", "a", "m", "i", "c", "s", "J", "_", "l",
       "e", "n", "g", "t", "h">>,
     <<"T", "x", "M", "d", "y", "n", "a", "m", "i", "c", "s", "J", "3", "_",
       "l", "e", "n", "g", "t", "h">>,
     <<"T", "t", "M", "f", "o", "o", "J", "3", "_", "l", "e", "n", "g", "t",
       "h">>,
     <<"T", "t", "M", "d", "y", "n", "a", "m", "i", "c", "s", "J", "3", "x",
       "y", "z", "_", "l", "e", "n", "g", "t", "h">>,
     <<"T", "t", "a", "b", "M", "d", "y", "n", "a", "m", "i", "c", "s", "J",
       "3", "_", "l", "e", "n", "g", "t", "h">>,
     <<"T", "t", "M", "d", "y", "n", "a", "m", "i", "c", "s", "J", "3", "_",
       "W", "1", ".", ".", "2", "_", "l", "e", "n", "g", "t", "h">>,
     <<"T", "g", "r", "o", "o", "t", "M", "r", "a", "t", "e", "J", "3", "_",
       "W", "_", "l", "o", "g">>}

\* Observable(from_string=ob.label)
RoundTrip ==
    LET r == FromString(label(ob))
    IN /\ outcome' = [Did("round_trip") EXCEPT !.arg = ob,
                                               !.string = label(ob),
                                               !.raised = r.raised,
                                               !.obj = r.obj]
       /\ UNCHANGED <<colonyVars, timeVars, callVars, obs, antMask, tailGap,
                      sdata, stepVars, ob, flatten>>

\* Observable(from_string=codestring)
Decode(codestring) ==
    LET r == FromString(codestring)
    IN /\ outcome' = [Did("from_string") EXCEPT !.string = codestring,
                                            !.raised = r.raised, !.obj = r.obj]
       /\ UNCHANGED <<colonyVars, timeVars, callVars, obs, antMask, tailGap,
                      sdata, stepVars, ob, flatten>>

\* ob.load_from_string(codestring), or ob.label = codestring (lines 181-184),
\* on an Observable built with keyword arguments
LoadFromString(codestring) ==
    LET r == load_from_string(ob, codestring)
    IN /\ outcome' = [Did("load_from_string") EXCEPT !.arg = ob,
                                                     !.string = codestring,
                                                     !.raised = r.raised,
                                                     !.obj = r.obj]
       /\ UNCHANGED <<colonyVars, timeVars, callVars, obs, antMask, tailGap,
                      sdata, stepVars, ob, flatten>>

\* Observables built with other keyword arguments than o: one argument
\* changed, or the word 'log' moved from the scale into the raw name
Variants(o) ==
    {[o EXCEPT !.raw = Words.logword \o <<"_">> \o o.raw, !.scale = "linear"],
     [o EXCEPT !.scale = IF o.scale = "log" THEN "linear" ELSE "log"],
     [o EXCEPT !.differentiate = ~o.differentiate],
     [o EXCEPT !.local_fit = ~o.local_fit],
     [o EXCEPT !.time_window = 12340],
     [o EXCEPT !.join_points = o.join_points + 1],
     [o EXCEPT !.mode = Words.division],
     [o EXCEPT !.timing = "m"],
     [o EXCEPT !.tref = FloatVal(1230)]}

\* ob.label and other.label, the keys of the two Observables in a cache
CompareLabels(other) ==
    /\ outcome' = [Did("labels") EXCEPT !.arg = ob, !.obj = other,
                                        !.string = label(ob),
                                        !.value = label(other)]
    /\ UNCHANGED <<colonyVars, timeVars, callVars, obs, antMask, tailGap,
                   sdata, stepVars, ob, flatten>>

\* ob.as_timelapse(): the changes are made on a deep copy
AsTimelapse ==
    LET r == as_timelapse(ob)
    IN /\ outcome' = [Did("as_timelapse") EXCEPT !.arg = ob, !.raised = r.raised,
                                             !.same = r.same, !.obj = r.obj]
       /\ UNCHANGED <<colonyVars, timeVars, callVars, obs, antMask, tailGap,
                      sdata, stepVars, ob, flatten>>

\* FunctionalObservable(name, f, kids).mode
FuncMode(kids) ==
    /\ outcome' = [Did("mode") EXCEPT !.kids = kids,
                                      !.value = FunctionalMode(kids)]
    /\ UNCHANGED <<colonyVars, timeVars, callVars, obs, antMask, tailGap,
                   sdata, stepVars, ob, flatten>>

\* FunctionalObservable('f', f, kids).label
FuncLabel(kids) ==
    /\ outcome' = [Did("label") EXCEPT !.kids = kids,
                                       !.value = FunctionalLabel(<<"f">>, kids)]
    /\ UNCHANGED <<colonyVars, timeVars, callVars, obs, antMask, tailGap,
                   sdata, stepVars, ob, flatten>>

\* unroll_raw_obs(arg), the parameter flatten left to its default: the list
\* made when the function was defined. FunctionalObservable.__init__ calls
\* it so on its list of children and keeps the result as raw_observables.
UnrollRawObs(arg) ==
    LET r == unroll_raw_obs(arg, flatten)
    IN /\ Len(r) <= MaxFlatten
       /\ flatten' = r
       /\ outcome' = [Did("unroll_raw_obs") EXCEPT !.kids = arg, !.list = r]
       /\ UNCHANGED <<colonyVars, timeVars, callVars, obs, antMask, tailGap,
                      sdata, stepVars, ob>>

\* set_observable_list(*args) with Observable arguments and no filters
SetObservableList(args) ==
    /\ Len(flatten) + Len(args) <= MaxFlatten
    /\ LET r == CollectRaw(args, flatten, <<>>)
       IN /\ flatten' = r.flatten
          /\ outcome' = [Did("set_observable_list") EXCEPT !.args = args,
                                                       !.list = r.raw_obs]
    /\ UNCHANGED <<colonyVars, timeVars, callVars, obs, antMask, tailGap,
                   sdata, stepVars, ob>>

(***************************************************************************)
(* Cell: parent, time table, calls                                         *)
(***************************************************************************)
\* Cell.parent, 0 is None
parent(c) == bpointer[c]

\* Cell.data is None
NoData == <<-1>>

NoOp == [op |-> "none", cell |-> 0, again |-> FALSE, wb |-> "none"]

Called(op, c) == [op |-> op, cell |-> c, again |-> FALSE, wb |-> "none"]

RECURSIVE Depth(_)
Depth(c) == IF bpointer[c] = 0 THEN 0 ELSE Depth(bpointer[c]) + 1

\* n frames of cell c, the first one e acquisition periods after the start
\* of the generation of c; the frames of a cell come after its parent's
FrameTimes(c, n, e) == [i \in 1..n |-> 2 * (Depth(c) * (MaxFrames + 2) + e + i)]

\* a time after every frame
LateTime == 2 * ((MaxFamily + 1) * (MaxFrames + 2))

AssignTimes == {0, LateTime}

(***************************************************************************)
(* Cell.birth_time and Cell.division_time setters, Cell.set_division_event *)
(***************************************************************************)
\* the test of the division_time setter, lines 139-141
DivisionRaises(c, value, births) == births[c] # NoTime /\ value < births[c]

\* cell.birth_time = value
SetBirthTime(c, value) ==
    /\ nassign < MaxAssign
    /\ nassign' = nassign + 1
    /\ birth_time' = [birth_time EXCEPT ![c] = value]
    /\ raised' = ""
    /\ lastOp' = Called("birth_time", c)
    /\ UNCHANGED <<colonyVars, buildVars, data, division_time>>

\* cell.division_time = value
SetDivisionTime(c, value) ==
    /\ nassign < MaxAssign
    /\ nassign' = nassign + 1
    /\ IF DivisionRaises(c, value, birth_time)
       THEN /\ raised' = "CellDivisionError"
            /\ UNCHANGED division_time
       ELSE /\ raised' = ""
            /\ division_time' = [division_time EXCEPT ![c] = value]
    /\ lastOp' = Called("division_time", c)
    /\ UNCHANGED <<colonyVars, buildVars, data, birth_time>>

\* variant: the parent's first frame, index 0 instead of -1
previous_frame_first(c) == data[parent(c)][1]

\* self.parent.data['time'][-1]
previous_frame(c) == Last(data[parent(c)])

\* variant: the cell's birth_time, once set, taken as its first frame time
first_frame_from_birth(c) ==
    IF birth_time[c] # NoTime THEN birth_time[c] ELSE data[c][1]

\* self.data['time'][0]
first_frame(c) == data[c][1]

\* (previous_frame + first_frame)/2., on doubled times
div_time(c) == (previous_frame(c) + first_frame(c)) \div 2

SetDivisionEvent(c) ==
    /\ lastOp' = [Called("set_division_event", c) EXCEPT
                     !.again = (lastOp.op = "set_division_event" /\ lastOp.cell = c)]
    /\ IF parent(c) # 0 /\ data[parent(c)] = <<>>
       THEN \* line 148 indexes an empty array
            /\ raised' = "IndexError"
            /\ UNCHANGED <<birth_time, division_time>>
       ELSE IF data[c] = <<>>
       THEN \* line 152 indexes an empty array
            /\ raised' = "IndexError"
            /\ UNCHANGED <<birth_time, division_time>>
       ELSE IF parent(c) # 0 /\ data[parent(c)] # NoData /\ data[c] # NoData
       THEN /\ birth_time' = [birth_time EXCEPT ![c] = div_time(c)]
            /\ IF DivisionRaises(parent(c), div_time(c), birth_time')
               THEN /\ raised' = "CellDivisionError"
                    /\ UNCHANGED division_time
               ELSE /\ raised' = ""
                    /\ division_time' =
                          [division_time EXCEPT ![parent(c)] = div_time(c)]
       ELSE /\ raised' = ""
            /\ UNCHANGED <<birth_time, division_time>>
    /\ UNCHANGED <<colonyVars, buildVars, data, nassign>>

(***************************************************************************)
(* Cell.build_timelapse                                                    *)
(***************************************************************************)
\* a missing value of an array; a label the cache does not hold
NaN == <<"nan", 0>>

Absent == << <<"absent", 0>> >>

SetMin(S) == CHOOSE x \in S : \A y \in S : x <= y

SetMax(S) == CHOOSE x \in S : \A y \in S : y <= x

\* Coordinates.valid: the positions holding a value
Valid(arr) == {i \in 1..Len(arr) : arr[i] # NaN}

\* Coordinates.clear_x: the times of the positions holding a value
ClearX(x, arr) == {x[i] : i \in Valid(arr)}

\* variant: <= instead of <, touching ranges count as disjoint
disjoint_time_sets_touching(ts1, ts2) ==
    \/ ts1 = {}
    \/ ts2 = {}
    \/ SetMax(ts1) <= SetMin(ts2)
    \/ SetMax(ts2) <= SetMin(ts1)

\* variant: `and` instead of `or` at line 377
disjoint_time_sets_both(ts1, ts2) ==
    \/ ts1 = {}
    \/ ts2 = {}
    \/ SetMax(ts1) < SetMin(ts2) /\ SetMax(ts2) < SetMin(ts1)

\* _disjoint_time_sets
disjoint_time_sets(ts1, ts2) ==
    \/ ts1 = {}
    \/ ts2 = {}
    \/ SetMax(ts1) < SetMin(ts2)
    \/ SetMax(ts2) < SetMin(ts1)

\* Coordinates(self.parent.data['time'], ...), lines 236-241
Anteriors(c) ==
    IF parent(c) # 0 /\ Len(data[parent(c)]) > 0 THEN data[parent(c)] ELSE <<>>

\* coords.y, derivative(coords).y and logderivative(coords).y
RawSeries(c) == [i \in 1..Len(data[c]) |-> <<"raw", c>>]

Derivative(c) == [i \in 1..Len(data[c]) |-> <<"dot", c>>]

LogDerivative(c) == [i \in 1..Len(data[c]) |-> <<"dotlog", c>>]

\* compute_rates: r or f, the estimates at the cell's own frames
ToCell(c, o) ==
    [i \in 1..Len(data[c]) |->
        IF i > Len(data[c]) - tailGap[c] THEN NaN
        ELSE <<(IF o.differentiate THEN "r" ELSE "f"), c>>]

\* compute_rates: ar or af, the estimates at the parent's frames
ToParent(c, o) ==
    [i \in 1..Len(Anteriors(c)) |->
        IF i \in antMask[c] THEN <<(IF o.differentiate THEN "ar" ELSE "af"), c>>
        ELSE NaN]

\* self.parent._sdata[label][addendum.valid] = addendum.clear_y
Merged(existing, addendum) ==
    [i \in 1..Len(existing) |->
        IF i \in Valid(addendum) THEN addendum[i] ELSE existing[i]]

\* lines 286-293 run on a parent's cache holding `held` under the label
WriteBackOn(c, o, held) ==
    LET to_parent == ToParent(c, o)
    IN IF held = Absent
       THEN [wb |-> "written", entry |-> to_parent]
       ELSE IF /\ Valid(to_parent) # {}
               /\ disjoint_time_sets(ClearX(Anteriors(c), held),
                                     ClearX(Anteriors(c), to_parent))
       THEN [wb |-> "merged", entry |-> Merged(held, to_parent)]
       ELSE [wb |-> "discarded", entry |-> held]

\* lines 286-293: what the parent's cache holds under the label afterwards
WriteBack(c, o) == WriteBackOn(c, o, sdata[parent(c)][Label(o)])

Returned(c, wb) ==
    /\ raised' = ""
    /\ lastOp' = [Called("build_timelapse", c) EXCEPT !.wb = wb]

Raised(c, error) ==
    /\ raised' = error
    /\ lastOp' = Called("build_timelapse", c)

\* Cell.build_timelapse(o) on cell c: the exception it raises ("" when it
\* returns), the caches it leaves and what its write-back did
build_timelapse(c, o) ==
    IF ~o.label_is_method
    THEN \* line 233 calls the str the property returns
         [raised |-> "TypeError", sdata |-> sdata, wb |-> "none"]
    ELSE IF data[c] = NoData
    THEN \* line 235 subscripts None
         [raised |-> "TypeError", sdata |-> sdata, wb |-> "none"]
    ELSE IF parent(c) # 0 /\ data[parent(c)] = NoData
    THEN \* line 236 takes len(None)
         [raised |-> "TypeError", sdata |-> sdata, wb |-> "none"]
    ELSE IF Len(data[c]) = 0
    THEN \* lines 243-245 return without storing
         [raised |-> "", sdata |-> sdata, wb |-> "none"]
    ELSE IF ~o.local_fit
    THEN IF o.differentiate /\ Len(data[c]) <= 1
         THEN \* `new` is not bound at line 266
              [raised |-> "UnboundLocalError", sdata |-> sdata, wb |-> "none"]
         ELSE [raised |-> "",
               sdata |-> [sdata EXCEPT ![c][Label(o)] =
                             IF ~o.differentiate THEN RawSeries(c)
                             ELSE IF o.scale = "linear" THEN Derivative(c)
                             ELSE LogDerivative(c)],
               wb |-> "none"]
    ELSE IF parent(c) = 0
    THEN \* line 284 stores, line 287 reads None._sdata
         [raised |-> "AttributeError",
          sdata |-> [sdata EXCEPT ![c][Label(o)] = ToCell(c, o)],
          wb |-> "none"]
    ELSE LET w == WriteBack(c, o)
         IN [raised |-> "",
             sdata |-> [sdata EXCEPT ![c][Label(o)] = ToCell(c, o),
                                     ![parent(c)][Label(o)] = w.entry],
             wb |-> w.wb]

BuildTimelapse(c) ==
    LET b == build_timelapse(c, obs)
    IN /\ raised' = b.raised
       /\ lastOp' = [Called("build_timelapse", c) EXCEPT !.wb = b.wb]
       /\ sdata' = b.sdata
       /\ UNCHANGED <<colonyVars, timeVars, obs, antMask, tailGap, stepVars, objVars>>

(***************************************************************************)
(* Cell.compute_cyclized and Cell.build                                    *)
(***************************************************************************)
\* lines 320-322: the deep copy set to mode 'dynamics', timing 't'
Continuous(o) == [o EXCEPT !.mode = "dynamics", !.timing = "t"]

\* lines 327-328 subscript the array cached under clabel with 'time': a
\* missing key when nothing was cached, else an array without named fields,
\* which numpy rejects with an IndexError or, in older releases, a ValueError
FieldErrors(entry) ==
    IF entry = Absent THEN {"KeyError"} ELSE {"IndexError", "ValueError"}

\* Cell.compute_cyclized(obs); the lines after 327 are never reached
ComputeCyclized(c) ==
    /\ lastOp' = Called("compute_cyclized", c)
    /\ IF ~obs.label_is_method
       THEN \* line 316 calls the str the property returns
            raised' = "TypeError" /\ UNCHANGED sdata
       ELSE IF obs.mode = "dynamics"
       THEN \* line 318
            raised' = "ValueError" /\ UNCHANGED sdata
       ELSE LET b == build_timelapse(c, Continuous(obs))
            IN /\ sdata' = b.sdata
               /\ IF b.raised # ""
                  THEN raised' = b.raised
                  ELSE raised' \in FieldErrors(b.sdata[c][Label(Continuous(obs))])
    /\ UNCHANGED <<colonyVars, timeVars, obs, antMask, tailGap, stepVars, objVars>>

\* Cell.build(obs)
Build(c) ==
    /\ IF obs.mode = "dynamics"
       THEN /\ BuildTimelapse(c)
       ELSE /\ ComputeCyclized(c)

(***************************************************************************)
(* Cell.build_timelapse line by line, for builds whose steps interleave    *)
(***************************************************************************)
Step(c, line) ==
    /\ pc' = [pc EXCEPT ![c] = line]
    \* this step is made while the build of another cell stands between two
    \* of its lines
    /\ overlap' = (overlap \/ \E d \in Cells \ {c} : pc[d] \notin {"idle", "done"})

\* variant: line 293 assigns the whole array, as line 288 does
MergeWhole(c) == ToParent(c, obs)

\* line 293: the valid entries of the addendum assigned into the parent's array
MergeValid(c) == Merged(sdata[parent(c)][Label(obs)], ToParent(c, obs))

\* lines 233-284: up to the store in the cell's own cache
BuildBegin(c) ==
    /\ pc[c] = "idle"
    /\ IF ~obs.label_is_method
       THEN Raised(c, "TypeError") /\ UNCHANGED sdata /\ Step(c, "done")
       ELSE IF data[c] = NoData \/ (parent(c) # 0 /\ data[parent(c)] = NoData)
       THEN Raised(c, "TypeError") /\ UNCHANGED sdata /\ Step(c, "done")
       ELSE IF Len(data[c]) = 0
       THEN Returned(c, "none") /\ UNCHANGED sdata /\ Step(c, "done")
       ELSE IF ~obs.local_fit
       THEN IF obs.differentiate /\ Len(data[c]) <= 1
            THEN Raised(c, "UnboundLocalError") /\ UNCHANGED sdata /\ Step(c, "done")
            ELSE /\ Returned(c, "none")
                 /\ sdata' = [sdata EXCEPT ![c][Label(obs)] =
                                 IF ~obs.differentiate THEN RawSeries(c)
                                 ELSE IF obs.scale = "linear" THEN Derivative(c)
                                 ELSE LogDerivative(c)]
                 /\ Step(c, "done")
       ELSE /\ sdata' = [sdata EXCEPT ![c][Label(obs)] = ToCell(c, obs)]
            /\ IF parent(c) = 0
               THEN Raised(c, "AttributeError") /\ Step(c, "done")
               ELSE UNCHANGED callVars /\ Step(c, "287")
    /\ UNCHANGED <<colonyVars, timeVars, obs, antMask, tailGap, objVars>>

\* lines 287 and 289: is the label a key of the parent's cache
BuildTest(c) ==
    /\ pc[c] = "287"
    /\ IF sdata[parent(c)][Label(obs)] = Absent
       THEN UNCHANGED callVars /\ Step(c, "288")
       ELSE IF Valid(ToParent(c, obs)) # {}
       THEN UNCHANGED callVars /\ Step(c, "290")
       ELSE Returned(c, "discarded") /\ Step(c, "done")
    /\ UNCHANGED <<colonyVars, timeVars, obs, antMask, tailGap, sdata, objVars>>

\* line 288
BuildWrite(c) ==
    /\ pc[c] = "288"
    /\ sdata' = [sdata EXCEPT ![parent(c)][Label(obs)] = ToParent(c, obs)]
    /\ Returned(c, "written")
    /\ Step(c, "done")
    /\ UNCHANGED <<colonyVars, timeVars, obs, antMask, tailGap, objVars>>

\* lines 290-292: the array held by the parent is read and compared
BuildCompare(c) ==
    /\ pc[c] = "290"
    /\ IF disjoint_time_sets(ClearX(Anteriors(c), sdata[parent(c)][Label(obs)]),
                             ClearX(Anteriors(c), ToParent(c, obs)))
       THEN UNCHANGED callVars /\ Step(c, "293")
       ELSE Returned(c, "discarded") /\ Step(c, "done")
    /\ UNCHANGED <<colonyVars, timeVars, obs, antMask, tailGap, sdata, objVars>>

\* line 293
BuildMerge(c) ==
    /\ pc[c] = "293"
    /\ sdata' = [sdata EXCEPT ![parent(c)][Label(obs)] = MergeValid(c)]
    /\ Returned(c, "merged")
    /\ Step(c, "done")
    /\ UNCHANGED <<colonyVars, timeVars, obs, antMask, tailGap, objVars>>

Trees ==
    {b \in [1..MaxCells -> 0..MaxCells] :
        /\ b[1] = 0
        /\ \A i \in 2..MaxCells : b[i] < i}

\* a colony of at most maxn cells
TreeInit(maxn) ==
    /\ ncells \in 1..maxn
    /\ bpointer \in {b \in Trees : \A i \in 2..MaxCells : (b[i] = 0) <=> (i > ncells)}
    \* add_cell_recursive links the children in the order of their identifiers
    /\ fpointer = [c \in 1..MaxCells |->
                      SortedSeq({d \in 1..MaxCells : bpointer[d] = c})]

\* nothing decomposed yet
WalkInit ==
    /\ idseqs = NoIdseqs
    /\ ret = NoIdseqs
    /\ lastCall = [independent |-> FALSE, seed |-> NoSeed, repeat |-> FALSE]
    /\ firstBySeed = [s \in 0..MaxSeed |-> NoIdseqs]
    /\ gen = NoGen

\* cells as Cell.__init__ leaves them, an empty time table each
CellsIdle ==
    /\ data = [c \in 1..MaxCells |-> <<>>]
    /\ birth_time = [c \in 1..MaxCells |-> NoTime]
    /\ division_time = [c \in 1..MaxCells |-> NoTime]
    /\ nassign = 0

\* no call made on observables yet
ObjIdle ==
    /\ ob = DefaultObject
    /\ outcome = NoOut
    /\ flatten = <<>>

\* no build in progress
StepsIdle ==
    /\ pc = [c \in 1..MaxCells |-> "idle"]
    /\ overlap = FALSE

BuildIdle ==
    /\ obs = DefaultObs
    /\ antMask = [c \in 1..MaxCells |-> {}]
    /\ tailGap = [c \in 1..MaxCells |-> 0]
    /\ sdata = [c \in 1..MaxCells |-> [l \in Labels |-> Absent]]
    /\ StepsIdle
    /\ ObjIdle

CallsIdle ==
    /\ raised = ""
    /\ lastOp = NoOp

ColonyInit(maxn) ==
    /\ TreeInit(maxn)
    /\ rng \in 0..(RngModulus - 1)
    /\ WalkInit
    /\ CellsIdle
    /\ BuildIdle
    /\ CallsIdle

\* the predicates tried: accept all, reject the root's lineage, reject the last cell's
Filters == {{}, {1}, {ncells}}

DecomposeNext ==
    \/ \E independent \in BOOLEAN, seed \in Seeds : Decompose(independent, seed)
    \/ Draw

ColonyNext ==
    \/ \E independent \in BOOLEAN, seed \in Seeds : Decompose(independent, seed)
    \/ Draw
    \/ \E filt \in Filters, size \in Sizes, shuffle \in BOOLEAN, seed \in Seeds :
          IterLineagesFresh(filt, size, shuffle, seed)
    \/ \E filt \in Filters, size \in Sizes, shuffle \in BOOLEAN :
          IterLineagesCached(filt, size, shuffle)
    \/ GenNext

\* decompositions of one colony, with other uses of the random generator
SpecDecompose == ColonyInit(MaxCells) /\ [][DecomposeNext]_vars

\* decompositions and lineage iterations of one colony
Init == ColonyInit(MaxIterCells)

Next == ColonyNext

Spec == Init /\ [][Next]_vars

(***************************************************************************)
(* Specification of the division events of a family of cells               *)
(***************************************************************************)
\* the time table of cell c: None, no frame, or MaxFrames frames
TimeTables(c) ==
    {NoData, <<>>} \cup {FrameTimes(c, MaxFrames, e) : e \in 0..1}

DivisionInit ==
    /\ TreeInit(MaxFamily)
    /\ rng = 0
    /\ WalkInit
    /\ data \in {d \in [1..MaxCells -> UNION {TimeTables(c) : c \in 1..MaxCells}] :
                    \A c \in 1..MaxCells :
                        IF c \in Cells THEN d[c] \in TimeTables(c) ELSE d[c] = <<>>}
    /\ birth_time = [c \in 1..MaxCells |-> NoTime]
    /\ division_time = [c \in 1..MaxCells |-> NoTime]
    /\ nassign = 0
    /\ BuildIdle
    /\ CallsIdle

DivisionNext ==
    \/ \E c \in Cells : SetDivisionEvent(c)
    \/ \E c \in Cells, value \in AssignTimes : SetBirthTime(c, value)
    \/ \E c \in Cells, value \in AssignTimes : SetDivisionTime(c, value)

SpecDivision == DivisionInit /\ [][DivisionNext]_vars

(***************************************************************************)
(* Specification of the builds of one observable over a family of cells    *)
(***************************************************************************)
\* the time table of cell c: None, or 0 to MaxFrames frames
FrameTables(c) == {NoData} \cup {FrameTimes(c, n, 0) : n \in 0..MaxFrames}

\* the frames of the parent at which the local fit of c can give an estimate
MaskChoices(c) ==
    IF c \in Cells /\ obs.local_fit /\ bpointer[c] # 0
    THEN SUBSET (1..Len(data[bpointer[c]]))
    ELSE {{}}

\* the last frames of c its own local fit can leave without an estimate
GapChoices(c) ==
    IF c \in Cells /\ obs.local_fit /\ fpointer[c] # <<>> /\ Len(data[c]) > 0
    THEN {0, 1}
    ELSE {0}

BuildInit ==
    /\ TreeInit(MaxFamily)
    /\ rng = 0
    /\ WalkInit
    /\ data \in {d \in [1..MaxCells -> UNION {FrameTables(c) : c \in 1..MaxCells}] :
                    \A c \in 1..MaxCells :
                        IF c \in Cells THEN d[c] \in FrameTables(c) ELSE d[c] = <<>>}
    /\ birth_time = [c \in 1..MaxCells |-> NoTime]
    /\ division_time = [c \in 1..MaxCells |-> NoTime]
    /\ nassign = 0
    /\ obs \in ObsSet
    /\ antMask \in {m \in [1..MaxCells -> SUBSET (1..MaxFrames)] :
                       \A c \in 1..MaxCells : m[c] \in MaskChoices(c)}
    /\ tailGap \in {g \in [1..MaxCells -> {0, 1}] :
                       \A c \in 1..MaxCells : g[c] \in GapChoices(c)}
    /\ sdata = [c \in 1..MaxCells |-> [l \in Labels |-> Absent]]
    /\ StepsIdle
    /\ ObjIdle
    /\ CallsIdle

BuildNext == \E c \in Cells : BuildTimelapse(c)

SpecBuild == BuildInit /\ [][BuildNext]_vars

(***************************************************************************)
(* Specification of the cell-cycle values of one observable                *)
(***************************************************************************)
\* the time table of cell c: zero to MaxFrames frames
CycleTables(c) == {FrameTimes(c, n, 0) : n \in 0..MaxFrames}

CyclizedInit ==
    /\ TreeInit(MaxFamily)
    /\ rng = 0
    /\ WalkInit
    /\ data \in {d \in [1..MaxCells -> UNION {CycleTables(c) : c \in 1..MaxCells}] :
                    \A c \in 1..MaxCells :
                        IF c \in Cells THEN d[c] \in CycleTables(c) ELSE d[c] = <<>>}
    /\ birth_time = [c \in 1..MaxCells |-> NoTime]
    /\ division_time = [c \in 1..MaxCells |-> NoTime]
    /\ nassign = 0
    /\ obs \in CycleObsSet \cup {DefaultObs, [DefaultObs EXCEPT !.label_is_method = FALSE]}
    /\ antMask \in {m \in [1..MaxCells -> SUBSET (1..MaxFrames)] :
                       \A c \in 1..MaxCells : m[c] \in MaskChoices(c)}
    /\ tailGap \in {g \in [1..MaxCells -> {0, 1}] :
                       \A c \in 1..MaxCells : g[c] \in GapChoices(c)}
    /\ sdata = [c \in 1..MaxCells |-> [l \in Labels \cup {Label(o) : o \in CycleObsSet} |-> Absent]]
    /\ StepsIdle
    /\ ObjIdle
    /\ CallsIdle

CyclizedNext ==
    \/ \E c \in Cells : ComputeCyclized(c)
    \/ \E c \in Cells : Build(c)

SpecCyclized == CyclizedInit /\ [][CyclizedNext]_vars

(***************************************************************************)
(* Specification of builds of one observable whose steps interleave        *)
(***************************************************************************)
\* every cell is built at most once, the caches start empty
InterleaveInit ==
    /\ BuildInit
    \* no frame or MaxFrames frames
    /\ \A c \in Cells : data[c] \in {FrameTimes(c, n, 0) : n \in {0, MaxFrames}}

InterleaveNext ==
    \/ \E c \in Cells : BuildBegin(c)
    \/ \E c \in Cells : BuildTest(c)
    \/ \E c \in Cells : BuildWrite(c)
    \/ \E c \in Cells : BuildCompare(c)
    \/ \E c \in Cells : BuildMerge(c)

SpecInterleave == InterleaveInit /\ [][InterleaveNext]_vars

(***************************************************************************)
(* Specification of the label codec of one Observable                      *)
(***************************************************************************)
\* the Observable objects built with keyword arguments
ObsPool ==
    {[name |-> n, raw |-> r, differentiate |-> f[1], scale |-> f[2],
      local_fit |-> w[1], time_window |-> w[2], join_points |-> j,
      mode |-> tm[2], timing |-> tm[1], tref |-> tr] :
        n \in {None, StrVal(Words.length)},
        r \in {Words.length, Words.cell_length},
        \* <<differentiate, scale>>
        f \in {<<FALSE, "linear">>, <<TRUE, "log">>},
        \* <<local_fit, time_window>>
        w \in {<<FALSE, 0>>, <<FALSE, 20000>>, <<TRUE, 20000>>, <<TRUE, 12344>>},
        j \in {0, MaxJoin},
        \* <<timing, mode>>
        tm \in {<<"t", Words.dynamics>>, <<"d", Words.dynamics>>,
                <<"b", Words.birth>>, <<"g", Words.net_increase_additive>>},
        tr \in {None, StrVal(Words.rootword), FloatVal(1500), FloatVal(1234),
                FloatVal(-1000), <<"int", 2>>}}

ObservableInit ==
    /\ TreeInit(1)
    /\ rng = 0
    /\ WalkInit
    /\ CellsIdle
    /\ obs = DefaultObs
    /\ antMask = [c \in 1..MaxCells |-> {}]
    /\ tailGap = [c \in 1..MaxCells |-> 0]
    /\ sdata = [c \in 1..MaxCells |-> [l \in Labels |-> Absent]]
    /\ StepsIdle
    /\ ob \in ObsPool
    /\ outcome = NoOut
    /\ flatten = <<>>
    /\ CallsIdle

ObservableNext ==
    \/ RoundTrip
    \/ \E codestring \in Codestrings : Decode(codestring)
    \/ AsTimelapse

SpecObservable == ObservableInit /\ [][ObservableNext]_vars

\* an Observable built without a name is loaded from a string, or its label
\* compared with the label of another
ReloadInit ==
    /\ ObservableInit
    /\ ob.name = None
    /\ ob.join_points = MaxJoin

ReloadNext ==
    \/ \E codestring \in Codestrings : LoadFromString(codestring)
    \/ \E other \in Variants(ob) : CompareLabels(other)

SpecReload == ReloadInit /\ [][ReloadNext]_vars

(***************************************************************************)
(* Specifications of the combinations and of the lists of observables      *)
(***************************************************************************)
\* the children lists of a FunctionalObservable: Observables, and
\* FunctionalObservables of Observables
KidsPool ==
    LET LeafChildren == {ObsChild(mo) : mo \in {Words.dynamics, Words.birth, Words.average}}
        Children ==
            LeafChildren
            \cup {FuncChild(kids) :
                     kids \in UNION {[1..n -> LeafChildren] : n \in 1..MaxKids}}
    IN UNION {[1..n -> Children] : n \in 1..MaxKids}

\* the argument lists of set_observable_list: objects of Heap
ArgsPool == UNION {[1..n -> 1..Len(Heap)] : n \in 1..MaxArgs}

FunctionalInit == ColonyInit(1)

FunctionalNext ==
    \/ \E kids \in KidsPool : FuncMode(kids)
    \/ \E kids \in KidsPool : FuncLabel(kids)

SpecFunctional == FunctionalInit /\ [][FunctionalNext]_vars

ListsInit == ColonyInit(1)

\* the arguments of unroll_raw_obs: an Observable of Heap, a
\* FunctionalObservable of Observables, or a list of these
UnrollPool ==
    LET objects == {ObsChild(i) : i \in 1..Len(Heap)}
        items == objects \cup {FuncChild(kids) :
                                 kids \in UNION {[1..n -> objects] : n \in 1..MaxKids}}
    IN items \cup {<<"list", l>> : l \in UNION {[1..n -> items] : n \in 1..MaxArgs}}

ListsNext ==
    \/ \E args \in ArgsPool : SetObservableList(args)
    \/ \E arg \in UnrollPool : UnrollRawObs(arg)

SpecLists == ListsInit /\ [][ListsNext]_vars

(***************************************************************************)
(* Properties of the decomposition                                         *)
(***************************************************************************)
\* number of times the pair <<p, c>> occurs as consecutive identifiers
Occurrences(ss, p, c) ==
    Cardinality({ij \in {<<i, j>> \in (1..Len(ss)) \X (1..MaxCells) : j < Len(ss[i])} :
                    ss[ij[1]][ij[2]] = p /\ ss[ij[1]][ij[2] + 1] = c})

Edges == {c \in Cells : bpointer[c] # 0}

Firsts(ss) == {ss[i][1] : i \in 1..Len(ss)}

\* C1: after decompose(independent=True) every cell identifier of the colony
\* occurs in exactly one returned sequence, exactly once.
C1_Partition ==
    lastCall.independent =>
        /\ Len(Flatten(ret)) = ncells
        /\ Range(Flatten(ret)) = Cells

C1_Witness ==
    /\ lastCall.independent
    /\ ncells = 4
    /\ Len(ret) = 2
    /\ \A i \in 1..Len(ret) : Len(ret[i]) = 2

\* C2 as stated: every parent-child edge occurs exactly once as a pair of
\* consecutive identifiers of a returned sequence.
C2_EveryEdgeOnce ==
    lastCall.independent =>
        \A c \in Edges : Occurrences(ret, bpointer[c], c) = 1

\* C2 amended: every parent-child edge occurs at most once as a pair of
\* consecutive identifiers; it occurs exactly once unless its child is the
\* first identifier of a sequence, and then it occurs in no sequence.
C2_EdgeOnceUnlessFirst ==
    lastCall.independent =>
        \A c \in Edges :
            Occurrences(ret, bpointer[c], c) = (IF c \in Firsts(ret) THEN 0 ELSE 1)

C2_Witness ==
    /\ lastCall.independent
    /\ \E c \in Edges : Occurrences(ret, bpointer[c], c) = 0
    /\ \E c \in Edges : Occurrences(ret, bpointer[c], c) = 1

\* C3: in every returned sequence each identifier after the first is a child
\* of the one before it, the last identifier is a leaf and no other one is;
\* one sequence is emitted per leaf and the first one starts at the root.
C3_Paths ==
    lastCall.independent =>
        /\ \A i \in 1..Len(ret) :
              /\ Len(ret[i]) >= 1
              /\ \A j \in 2..Len(ret[i]) : bpointer[ret[i][j]] = ret[i][j - 1]
              /\ is_leaf(Last(ret[i]))
              /\ \A j \in 1..(Len(ret[i]) - 1) : ~is_leaf(ret[i][j])
        /\ Len(ret) = Len(leaves)
        /\ {Last(ret[i]) : i \in 1..Len(ret)} = Range(leaves)
        /\ ret[1][1] = root

C3_Witness ==
    /\ lastCall.independent
    /\ Len(ret) >= 2
    /\ Len(ret[2]) >= 2
    /\ Len(ret[1]) >= 2

(***************************************************************************)
(* Properties of iter_lineages                                             *)
(***************************************************************************)
NoSharedCell(ss) ==
    \A i, j \in 1..Len(ss) : i # j => Range(ss[i]) \cap Range(ss[j]) = {}

\* C4: iter_lineages on a colony with no cached decomposition iterates an
\* independent decomposition: no cell identifier occurs in two lineages.
C4_IterIndependent ==
    (gen.pc # "none" /\ gen.fresh) => NoSharedCell(gen.list)

\* C5: a decompose(independent=True, seed=s) that repeats an earlier call
\* with the same seed s returns what the first such call returned.
C5_Reproducible ==
    lastCall.repeat => ret = firstBySeed[lastCall.seed]

C5_Witness ==
    /\ lastCall.repeat
    /\ Len(ret) >= 2
    /\ \A s \in 0..MaxSeed : firstBySeed[s] # NoIdseqs
    /\ \E s \in 0..MaxSeed : firstBySeed[s] # ret
    /\ gen.pc = "done"

Accepted(g) == SelectSeq(g.list, LAMBDA l : FiltAccepts(g.filt, l))

Quota(g) ==
    IF g.size = NoSize THEN Len(Accepted(g)) ELSE Min(g.size, Len(Accepted(g)))

\* C6: the lineages yielded are the accepted ones, in the order of the list
\* iterated, and once the generator is exhausted their number is
\* min(size, number of accepted lineages), or all of them without size.
C6_FilterAndSize ==
    gen.pc # "none" =>
        /\ Len(gen.yielded) <= Quota(gen)
        /\ gen.yielded = SubSeq(Accepted(gen), 1, Len(gen.yielded))
        /\ gen.pc = "done" => Len(gen.yielded) = Quota(gen)

C6_Witness ==
    /\ gen.pc = "done"
    /\ gen.size = 1
    /\ Len(gen.yielded) = 1
    /\ Len(Accepted(gen)) = 2

C6_WitnessFiltered ==
    /\ gen.pc = "done"
    /\ gen.size = NoSize
    /\ Len(gen.list) = 2
    /\ gen.yielded = <<gen.list[2]>>

(***************************************************************************)
(* Properties of the division events                                       *)
(***************************************************************************)
HasFrames(c) == data[c] # NoData /\ data[c] # <<>>

\* the call dates a division: the cell and its parent both have frames
DatesDivision(c) == HasFrames(c) /\ parent(c) # 0 /\ HasFrames(parent(c))

\* twice the midpoint of the parent's last and the cell's first frame time
TwiceMidpoint(c) == data[parent(c)][Len(data[parent(c)])] + data[c][1]

\* C7: whenever a cell has both times set, division_time >= birth_time
\* (an operation that would break this fails with the division-time error).
C7_DivisionAfterBirth ==
    \A c \in Cells :
        (birth_time[c] # NoTime /\ division_time[c] # NoTime)
            => division_time[c] >= birth_time[c]

\* C8 as stated: set_division_event on a cell with frames whose parent has
\* frames leaves the cell's birth_time and the parent's division_time both
\* equal to the midpoint of the parent's last and the cell's first frame time.
C8_MidpointBoth ==
    [][\A c \in Cells :
          (SetDivisionEvent(c) /\ DatesDivision(c)) =>
              /\ 2 * birth_time'[c] = TwiceMidpoint(c)
              /\ 2 * division_time'[parent(c)] = TwiceMidpoint(c)]_vars

\* C8 amended: the cell's birth_time is set to the midpoint; the parent's
\* division_time is set to it too unless the parent's birth_time is set and
\* greater than the midpoint: then the call fails with CellDivisionError and
\* the parent's division_time keeps its value.
C8_MidpointUnlessRaised ==
    [][\A c \in Cells :
          (SetDivisionEvent(c) /\ DatesDivision(c)) =>
              /\ 2 * birth_time'[c] = TwiceMidpoint(c)
              /\ IF /\ birth_time[parent(c)] # NoTime
                    /\ TwiceMidpoint(c) < 2 * birth_time[parent(c)]
                 THEN /\ raised' = "CellDivisionError"
                      /\ division_time'[parent(c)] = division_time[parent(c)]
                 ELSE /\ raised' = ""
                      /\ 2 * division_time'[parent(c)] = TwiceMidpoint(c)]_vars

C8_Witness ==
    /\ lastOp.op = "set_division_event"
    /\ raised = ""
    /\ DatesDivision(lastOp.cell)
    /\ birth_time[parent(lastOp.cell)] # NoTime
    /\ 2 * birth_time[lastOp.cell] = TwiceMidpoint(lastOp.cell)
    /\ division_time[parent(lastOp.cell)] = birth_time[lastOp.cell]

C8_WitnessRaised ==
    /\ lastOp.op = "set_division_event"
    /\ raised = "CellDivisionError"
    /\ 2 * birth_time[lastOp.cell] = TwiceMidpoint(lastOp.cell)
    /\ division_time[parent(lastOp.cell)] # birth_time[lastOp.cell]

\* the step is a call of set_division_event on c right after one on c
SecondEvent(c) ==
    /\ lastOp.op = "set_division_event"
    /\ lastOp.cell = c
    /\ SetDivisionEvent(c)

\* C9 as stated, for a cell with frames whose parent has frames: a second
\* set_division_event on the same cell leaves the cell's birth_time and its
\* parent's division_time as the first call left them, and does not raise.
C9_IdempotentNoRaise ==
    [][\A c \in Cells :
          (SecondEvent(c) /\ DatesDivision(c)) =>
              /\ birth_time'[c] = birth_time[c]
              /\ parent(c) # 0 => division_time'[parent(c)] = division_time[parent(c)]
              /\ raised' = ""]_vars

\* C9 amended: a second set_division_event on the same cell leaves the
\* cell's birth_time and its parent's division_time as the first call left
\* them, and raises exactly the error the first call raised, if any.
C9_Idempotent ==
    [][\A c \in Cells :
          SecondEvent(c) =>
              /\ birth_time'[c] = birth_time[c]
              /\ parent(c) # 0 => division_time'[parent(c)] = division_time[parent(c)]
              /\ raised' = raised]_vars

C9_Witness ==
    /\ lastOp.op = "set_division_event"
    /\ lastOp.again
    /\ raised = ""
    /\ DatesDivision(lastOp.cell)
    /\ division_time[parent(lastOp.cell)] = birth_time[lastOp.cell]

C9_WitnessRaised ==
    /\ lastOp.op = "set_division_event"
    /\ lastOp.again
    /\ raised = "CellDivisionError"

(***************************************************************************)
(* Properties of the write-back of build_timelapse                         *)
(***************************************************************************)
\* the call reaches the write-back of lines 286-293
WritesBack(c) ==
    /\ obs.label_is_method
    /\ obs.local_fit
    /\ HasFrames(c)
    /\ parent(c) # 0
    /\ data[parent(c)] # NoData

\* the times of the parent's frames at which arr holds a value
ValidTimes(c, arr) == {data[parent(c)][i] : i \in {j \in 1..Len(arr) : arr[j] # NaN}}

RangesApart(A, B) ==
    \/ A = {}
    \/ B = {}
    \/ \A a \in A, b \in B : a < b
    \/ \A a \in A, b \in B : b < a

FirstWriterWins(c, old, new, add) ==
    IF old = Absent THEN new = add
    ELSE IF RangesApart(ValidTimes(c, old), ValidTimes(c, add))
    THEN /\ Len(new) = Len(old)
         /\ \A i \in 1..Len(old) :
               new[i] = (IF add[i] # NaN THEN add[i] ELSE old[i])
         /\ \A i \in 1..Len(old) : old[i] # NaN => new[i] = old[i]
    ELSE new = old

C10_WitnessDiscarded ==
    /\ lastOp.op = "build_timelapse"
    /\ lastOp.wb = "discarded"
    /\ Valid(ToParent(lastOp.cell, obs)) # {}
    /\ Range(ToParent(lastOp.cell, obs))
          \cap Range(sdata[parent(lastOp.cell)][Label(obs)]) \subseteq {NaN}

C10_WitnessWritten ==
    /\ lastOp.op = "build_timelapse"
    /\ lastOp.wb = "written"
    /\ sdata[parent(lastOp.cell)][Label(obs)] = ToParent(lastOp.cell, obs)
    /\ Valid(ToParent(lastOp.cell, obs)) # {}

(***************************************************************************)
(* Properties of interleaved builds                                        *)
(***************************************************************************)
\* c and d are siblings whose builds have both gone through the write-back,
\* the build of their parent not begun
SiblingsBuilt(c, d) ==
    /\ c # d
    /\ parent(c) # 0
    /\ parent(c) = parent(d)
    /\ WritesBack(c)
    /\ WritesBack(d)
    /\ pc[c] = "done"
    /\ pc[d] = "done"
    /\ pc[parent(c)] = "idle"

\* the parent's entry after the whole build of c, then the whole build of d
SerialEntry(c, d) ==
    WriteBackOn(d, obs, WriteBackOn(c, obs, Absent).entry).entry

SerialEntries(c, d) == {SerialEntry(c, d), SerialEntry(d, c)}

C11_WitnessSerial ==
    \E c, d \in Cells :
        /\ SiblingsBuilt(c, d)
        /\ ~overlap
        /\ lastOp.wb = "merged"
        /\ sdata[parent(c)][Label(obs)] = SerialEntry(c, d)
        /\ Valid(ToParent(c, obs)) # {}
        /\ Valid(ToParent(d, obs)) # {}

(***************************************************************************)
(* Properties of builds on cells without frames                            *)
(***************************************************************************)
\* the last call is a build_timelapse on a cell with a time table of zero
\* frames, with an observable whose label can be called, the parent's time
\* table, if any, loaded
BuiltWithoutFrames ==
    /\ lastOp.op = "build_timelapse"
    /\ data[lastOp.cell] = <<>>
    /\ obs.label_is_method
    /\ parent(lastOp.cell) # 0 => data[parent(lastOp.cell)] # NoData

\* C12: a build on a cell with zero frames does not raise and leaves the
\* empty array in the cell's cache under the observable's label.
C12_EmptyCached ==
    BuiltWithoutFrames =>
        /\ raised = ""
        /\ sdata[lastOp.cell][Label(obs)] = <<>>

(***************************************************************************)
(* Properties of compute_cyclized                                          *)
(***************************************************************************)
\* C13: compute_cyclized with an observable of mode 'dynamics' fails with a
\* ValueError and leaves every cache as it is.
C13_DynamicsValueError ==
    [][\A c \in Cells :
          (ComputeCyclized(c) /\ obs.mode = "dynamics") =>
              /\ raised' = "ValueError"
              /\ sdata' = sdata]_vars

\* the last call is a compute_cyclized with an observable of another mode
\* whose label can be called, on a cell with at least one frame
CyclizedOnFrames ==
    /\ lastOp.op = "compute_cyclized"
    /\ obs.mode # "dynamics"
    /\ obs.label_is_method
    /\ HasFrames(lastOp.cell)

\* the stored result is a value or the missing-value sentinel
IsResult(entry) == entry # Absent

\* C14: compute_cyclized in a mode other than 'dynamics' raises nothing and
\* stores a value, or NaN, under the observable's own label.
C14_NoErrorPropagates ==
    CyclizedOnFrames =>
        /\ raised = ""
        /\ IsResult(sdata[lastOp.cell][Label(obs)])

\* extrapolate_endpoints(..., end_point=e): the value extrapolated for cell c
Extrapolated(c, e) == <<e, c>>

\* dval - bval, line 355
NetIncreaseAdditive(c) ==
    <<"minus", Extrapolated(c, "division"), Extrapolated(c, "birth")>>

\* C15: compute_cyclized in mode 'net-increase-additive' on a cell with
\* frames stores, under the observable's label, the value extrapolated at
\* division minus the value extrapolated at birth.
C15_NetIncreaseAdditive ==
    (CyclizedOnFrames /\ obs.mode = "net-increase-additive") =>
        /\ raised = ""
        /\ sdata[lastOp.cell][Label(obs)] = NetIncreaseAdditive(lastOp.cell)

(***************************************************************************)
(* Properties of the label codec                                           *)
(***************************************************************************)
\* the number a tref stands for, in thousandths
NumValue(tref) == IF tref[1] = "int" THEN 1000 * tref[2] ELSE tref[2]

SameTref(a, b) ==
    IF a[1] \in {"float", "int"} /\ b[1] \in {"float", "int"}
    THEN NumValue(a) = NumValue(b)
    ELSE a[1] = b[1] /\ (a[1] = "str" => a[2] = b[2])

\* equal in timing, tref, mode, join_points, differentiate, local_fit (and
\* time_window when local_fit is set), scale and raw
SameAttributes(a, b) ==
    /\ a.timing = b.timing
    /\ SameTref(a.tref, b.tref)
    /\ a.mode = b.mode
    /\ a.join_points = b.join_points
    /\ a.differentiate = b.differentiate
    /\ a.local_fit = b.local_fit
    /\ a.local_fit => a.time_window = b.time_window
    /\ a.scale = b.scale
    /\ a.raw = b.raw

\* C16: decoding the label of an Observable gives an Observable with the
\* same timing, tref, mode, join_points, differentiate, local_fit,
\* time_window, scale and raw.
C16_RoundTrip ==
    outcome.op = "round_trip" =>
        /\ outcome.raised = ""
        /\ SameAttributes(outcome.obj, outcome.arg)

\* position of the first character ch of s, 0 when there is none
Find(s, ch) ==
    IF \E i \in 1..Len(s) : s[i] = ch
    THEN CHOOSE i \in 1..Len(s) : s[i] = ch /\ \A k \in 1..(i - 1) : s[k] # ch
    ELSE 0

\* a floating-point value, the decimal separator a dot or a comma
IsNumber(text) ==
    LET t == IF text # <<>> /\ Head(text) = "-" THEN Tail(text) ELSE text
        b == Span(t, Digit)
        c == Span(Drop(t, b), Separator)
        d == Span(Drop(t, b + c), Digit)
    IN b + c + d = Len(t) /\ c <= 1 /\ b + d >= 1

\* [_dot][_W<time_window>][_log], as the items between the underscores
IsOptions(items) ==
    LET a == IF items # <<>> /\ Head(items) = Words.dotword THEN Tail(items) ELSE items
        b == IF a # <<>> /\ Head(a) # <<>> /\ Head(Head(a)) = "W"
                /\ IsNumber(Tail(Head(a)))
             THEN Tail(a) ELSE a
        c == IF b # <<>> /\ Head(b) = Words.logword THEN Tail(b) ELSE b
    IN c = <<>>

\* s is a sentence of the label grammar
\* T<timing>[<tref>]M<mode>J<join_points>[_dot][_W<time_window>][_log]_<raw>
IsSentence(s) ==
    /\ Len(s) >= 2
    /\ s[1] = "T"
    /\ s[2] \in Timings
    /\ LET r == Drop(s, 2)
           tref == Take(r, Find(r, "M") - 1)
           rm == Drop(r, Find(r, "M"))
           mode == Take(rm, Find(rm, "J") - 1)
           rj == Drop(rm, Find(rm, "J"))
           j == Span(rj, Digit)
           rest == Drop(rj, j)
       IN /\ Find(r, "M") > 0
          /\ tref = <<>> \/ tref = Words.rootword \/ IsNumber(tref)
          /\ Find(rm, "J") > 0
          /\ mode \in Modes
          /\ j >= 1
          /\ rest # <<>>
          /\ Head(rest) = "_"
          /\ Last(Split(Tail(rest))) # <<>>
          /\ IsOptions(Front(Split(Tail(rest))))

\* C17: decoding a string that is not a sentence of the label grammar fails
\* with ObservableStringError.
C17_InvalidRejected ==
    (outcome.op = "from_string" /\ ~IsSentence(outcome.string)) =>
        outcome.raised = "ObservableStringError"

\* C18: Observables with equal attributes are the same observable for the
\* membership tests of set_observable_list: the list of raw observables it
\* returns holds no two objects with equal attributes.
C18_EqualByAttributes ==
    outcome.op = "set_observable_list" =>
        \A i, j \in 1..Len(outcome.list) :
            i # j => Heap[outcome.list[i]] # Heap[outcome.list[j]]

\* C19: as_timelapse returns the receiver itself when its mode is
\* 'dynamics' and its timing 't'; otherwise it returns a copy that differs
\* from the receiver in mode ('dynamics'), timing ('t') and name
\* ('_timelapsed_' followed by the receiver's name) only, and whose label is
\* the label of the receiver set to mode 'dynamics' and timing 't'.
C19_AsTimelapse ==
    outcome.op = "as_timelapse" =>
        /\ outcome.raised = ""
        /\ outcome.arg = ob
        /\ IF outcome.arg.mode = Words.dynamics /\ outcome.arg.timing = "t"
           THEN outcome.same /\ outcome.obj = outcome.arg
           ELSE /\ ~outcome.same
                /\ outcome.obj.mode = Words.dynamics
                /\ outcome.obj.timing = "t"
                /\ outcome.obj.name = StrVal(Words.timelapsed \o outcome.arg.name[2])
                /\ [outcome.obj EXCEPT !.name = None]
                      = [outcome.arg EXCEPT !.name = None, !.mode = Words.dynamics,
                                        !.timing = "t"]
                /\ label(outcome.obj)
                      = label([outcome.arg EXCEPT !.mode = Words.dynamics,
                                                  !.timing = "t"])

\* the modes of the Observables reachable from kids
RECURSIVE LeafModes(_)
LeafModes(kids) ==
    UNION {IF kids[i][1] = "obs" THEN {kids[i][2]} ELSE LeafModes(kids[i][2]) :
              i \in 1..Len(kids)}

\* C20: the mode of a FunctionalObservable is 'dynamics' when an Observable
\* among its children, or among the children of a FunctionalObservable child,
\* has mode 'dynamics', and 'cell-cycle' otherwise.
C20_FunctionalMode ==
    outcome.op = "mode" =>
        outcome.value = (IF Words.dynamics \in LeafModes(outcome.kids) THEN Words.dynamics
                     ELSE Words.cell_cycle)

C20_Witness ==
    /\ outcome.op = "mode"
    /\ Len(outcome.kids) = 2
    /\ outcome.kids[1] = ObsChild(Words.birth)
    /\ outcome.kids[2] = FuncChild(<<ObsChild(Words.average), ObsChild(Words.dynamics)>>)
    /\ outcome.value = Words.dynamics

C20_WitnessCellCycle ==
    /\ outcome.op = "mode"
    /\ Len(outcome.kids) = 2
    /\ outcome.kids[2][1] = "fobs"
    /\ outcome.value = Words.cell_cycle

(***************************************************************************)
(* Properties of the label of a FunctionalObservable                       *)
(***************************************************************************)
\* the labels of the children joined by ', ', a FunctionalObservable child
\* labelled in the same way
RECURSIVE Joined(_)
Joined(kids) ==
    IF kids = <<>> THEN <<>>
    ELSE (IF Head(kids)[1] = "obs"
          THEN label([DefaultObject EXCEPT !.mode = Head(kids)[2]])
          ELSE <<"g", "(">> \o Joined(Head(kids)[2]) \o <<")">>)
         \o (IF Tail(kids) = <<>> THEN <<>> ELSE <<",", " ">>)
         \o Joined(Tail(kids))

\* C21: the label of a FunctionalObservable is its name, '(', the labels of
\* its children in order with ', ' between consecutive children, and ')'.
C21_JoinedLabel ==
    outcome.op = "label" =>
        outcome.value = <<"f", "(">> \o Joined(outcome.kids) \o <<")">>

(***************************************************************************)
(* Properties of the derived cache                                         *)
(***************************************************************************)
\* C22: once the cache of a cell holds an entry for the label, every build
\* leaves each non-missing value of that entry as it is.
C22_NeverEvicted ==
    [][\A c \in Cells :
          LET held == sdata[c][Label(obs)]
              kept == sdata'[c][Label(obs)]
          IN held # Absent =>
                /\ kept # Absent
                /\ Len(kept) = Len(held)
                /\ \A i \in Valid(held) : kept[i] = held[i]]_vars

\* C23: without local fit, on a cell with at least one frame, the build
\* does not raise; it stores the raw values when differentiation is not
\* requested or the cell has fewer than 2 frames, and the derivative (of the
\* values, or of their log) otherwise.
C23_NoLocalFit ==
    [][\A c \in Cells :
          (/\ BuildTimelapse(c)
           /\ obs.label_is_method
           /\ ~obs.local_fit
           /\ data[c] # NoData
           /\ Len(data[c]) >= 1
           /\ parent(c) # 0 => data[parent(c)] # NoData)
          => /\ raised' = ""
             /\ sdata'[c][Label(obs)] =
                   (IF ~obs.differentiate \/ Len(data[c]) < 2 THEN RawSeries(c)
                    ELSE IF obs.scale = "linear" THEN Derivative(c)
                    ELSE LogDerivative(c))]_vars

\* C27: with a local fit, on a cell with frames and no parent, the build
\* does not raise, stores the cell-side series in the cache of the cell and
\* writes nothing back.
C27_RootLocalFit ==
    [][\A c \in Cells :
          (/\ BuildTimelapse(c)
           /\ obs.label_is_method
           /\ obs.local_fit
           /\ parent(c) = 0
           /\ data[c] # NoData
           /\ Len(data[c]) >= 1)
          => /\ raised' = ""
             /\ sdata'[c][Label(obs)] = ToCell(c, obs)
             /\ lastOp'.wb = "none"
             /\ \A d \in Cells \ {c} : sdata'[d] = sdata[d]]_vars

(***************************************************************************)
(* Properties of the cached decomposition                                  *)
(***************************************************************************)
\* C25: once iter_lineages has been called, shuffle set or not, Colony.idseqs
\* holds the sequences decompose returned, in the order it returned them.
C25_ShuffleKeepsCache == gen.pc # "none" => idseqs = ret

(***************************************************************************)
(* Properties of the division events of siblings                           *)
(***************************************************************************)
\* C26: when every cell has frames and set_division_event has been called
\* on every cell with a parent (the call on the root changes nothing), and no
\* time was assigned otherwise, the birth_time of each cell with a parent is
\* the division_time of its parent.
C26_BirthIsParentDivision ==
    (/\ nassign = 0
     /\ \A c \in Cells : data[c] # NoData /\ data[c] # <<>>
     /\ \A c \in Cells : parent(c) # 0 => birth_time[c] # NoTime)
    => \A c \in Cells : parent(c) # 0 => birth_time[c] = division_time[parent(c)]

(***************************************************************************)
(* Properties of loading an Observable from a string                       *)
(***************************************************************************)
\* C28: when load_from_string raises ObservableStringError, the Observable
\* keeps the mode, timing, tref, raw, scale, differentiate, local_fit,
\* time_window and join_points it had before the call.
C28_InvalidLeavesUnchanged ==
    (outcome.op = "load_from_string" /\ outcome.raised = "ObservableStringError")
    => [outcome.obj EXCEPT !.name = None] = [outcome.arg EXCEPT !.name = None]

(***************************************************************************)
(* Properties of the label as a key                                        *)
(***************************************************************************)
\* C29: two Observables that differ in raw, scale, differentiate, local_fit,
\* time_window (local_fit being set), join_points, mode, timing or tref have
\* different labels.
C29_LabelInjective ==
    LET a == outcome.arg
        b == outcome.obj
    IN (/\ outcome.op = "labels"
        /\ \/ a.raw # b.raw
           \/ a.scale # b.scale
           \/ a.differentiate # b.differentiate
           \/ a.local_fit # b.local_fit
           \/ a.local_fit /\ a.time_window # b.time_window
           \/ a.join_points # b.join_points
           \/ a.mode # b.mode
           \/ a.timing # b.timing
           \/ a.tref # b.tref)
       => outcome.string # outcome.value

(***************************************************************************)
(* Properties of unroll_raw_obs                                            *)
(***************************************************************************)
\* the Observable objects reachable from items
RECURSIVE ReachableLeaves(_)
ReachableLeaves(items) ==
    UNION {IF items[i][1] = "obs" THEN {items[i][2]}
           ELSE ReachableLeaves(items[i][2]) : i \in 1..Len(items)}

\* C24: the list unroll_raw_obs returns holds every Observable reachable
\* from its argument and nothing else.
C24_UnrollsReachable ==
    outcome.op = "unroll_raw_obs" =>
        Range(outcome.list) = ReachableLeaves(<<outcome.kids>>)

(***************************************************************************)
(* Properties of the write-back of two siblings                            *)
(***************************************************************************)
\* c and d are the only children of their parent that were built, one whole
\* build after the other, and the valid time ranges of their parent-side
\* contributions are apart
BuiltApart(c, d) ==
    /\ SiblingsBuilt(c, d)
    /\ ~overlap
    /\ \A e \in Cells \ {c, d} : parent(e) = parent(c) => pc[e] = "idle"
    /\ RangesApart(ValidTimes(c, ToParent(c, obs)), ValidTimes(d, ToParent(d, obs)))

C30_WitnessOtherOrder ==
    \E c, d \in Cells :
        /\ BuiltApart(c, d)
        /\ c < d
        /\ lastOp.cell = d
        /\ lastOp.wb = "merged"
        /\ Valid(ToParent(c, obs)) # {}
        /\ Valid(ToParent(d, obs)) # {}
        /\ {<<"af", c>>, <<"af", d>>} \subseteq Range(sdata[parent(c)][Label(obs)])

=============================================================================
